---- MODULE Spec2Model ----
(***************************************************************************)
(* Model of freakforge/backend/import_combine_data.py: the combine-data    *)
(* importer (height parser, numeric coercion, per-row record builder and   *)
(* filter, aggregator, metric statistics, serializer).                     *)
(*                                                                         *)
(* Python str values are sequences of one-character strings.  Python       *)
(* floats are records [k, v]: k = "float" carries the value v in           *)
(* hundredths (4.5 is 450), k = "nan" is the float NaN, k = "None" is the  *)
(* Python None.                                                            *)
(***************************************************************************)
EXTENDS Integers, Sequences, FiniteSets, TLC

\* ------------------------------------------------------------------ bounds
\* Number of data rows of the input file.
MaxRows == 2
\* Longest argument of a direct call to parse_height_to_inches.
MaxLen == 3

\* ------------------------------------------------------------ Python values
None == [k |-> "None", v |-> 0]
NaN == [k |-> "nan", v |-> 0]
Num(x) == [k |-> "float", v |-> x]
\* A str position that csv.DictReader filled with restval (a short row).
NoneStr == <<"<None>">>

\* bool(x) of an Optional[float]: None and 0.0 are false, NaN is true.
Truthy(x) == x.k = "nan" \/ (x.k = "float" /\ x.v # 0)
\* Variant: the filter `if a.get(metric)` in place of `is not None`.
IsNotNoneByTruth(x) == Truthy(x)
IsNotNone(x) == x.k # "None"

Digits == {"0", "1", "2", "3", "4", "5", "6", "7", "8", "9"}
DigitVal(c) ==
  CASE c = "0" -> 0 [] c = "1" -> 1 [] c = "2" -> 2 [] c = "3" -> 3
    [] c = "4" -> 4 [] c = "5" -> 5 [] c = "6" -> 6 [] c = "7" -> 7
    [] c = "8" -> 8 [] c = "9" -> 9
DigitChar(d) == <<"0", "1", "2", "3", "4", "5", "6", "7", "8", "9">>[d + 1]
Whitespace == {" "}

\* int("123") on a run of decimal digits.
RECURSIVE DigitsToInt(_)
DigitsToInt(s) ==
  IF s = <<>> THEN 0
  ELSE 10 * DigitsToInt(SubSeq(s, 1, Len(s) - 1)) + DigitVal(s[Len(s)])

\* str(n) of an int.
RECURSIVE NatToStr(_)
NatToStr(n) ==
  IF n < 10 THEN <<DigitChar(n)>>
  ELSE NatToStr(n \div 10) \o <<DigitChar(n % 10)>>
IntToStr(n) == IF n < 0 THEN <<"-">> \o NatToStr(0 - n) ELSE NatToStr(n)

\* str.strip(): leading and trailing whitespace removed.
RECURSIVE LStrip(_)
LStrip(s) ==
  IF s # <<>> /\ s[1] \in Whitespace THEN LStrip(Tail(s)) ELSE s
RECURSIVE RStrip(_)
RStrip(s) ==
  IF s # <<>> /\ s[Len(s)] \in Whitespace
  THEN RStrip(SubSeq(s, 1, Len(s) - 1)) ELSE s
Strip(s) == RStrip(LStrip(s))

\* Length of the longest run of characters of set C in s starting at p.
RECURSIVE Run(_, _, _)
Run(s, p, C) ==
  IF p <= Len(s) /\ s[p] \in C THEN 1 + Run(s, p + 1, C) ELSE 0

\* ------------------------------------------------- parse_height_to_inches
\* re.match(r"(\d+)'?\s*(\d+)", s): the backtracking search.  A candidate
\* <<i, q, w>> gives group 1 the first i digits, lets '? consume q quote
\* marks and \s* consume w whitespace characters; it matches when a digit
\* follows.  The matcher tries the longer alternative first at each
\* quantifier, so the match is the lexicographically greatest candidate.
Cands1(s) ==
  {c \in (1..Len(s)) \X {0, 1} \X (0..Len(s)) :
     /\ c[1] <= Run(s, 1, Digits)
     /\ c[2] = 1 => (c[1] + 1 <= Len(s) /\ s[c[1] + 1] = "'")
     /\ c[3] <= Run(s, c[1] + c[2] + 1, Whitespace)
     /\ Run(s, c[1] + c[2] + c[3] + 1, Digits) >= 1}
Prefer(a, b) ==
  \/ a[1] > b[1]
  \/ a[1] = b[1] /\ a[2] > b[2]
  \/ a[1] = b[1] /\ a[2] = b[2] /\ a[3] >= b[3]
First1(s) == CHOOSE c \in Cands1(s) : \A d \in Cands1(s) : Prefer(c, d)

\* re.match(r"(\d+)'", s): group 1 is i digits and a quote mark follows.
Cands2(s) ==
  {i \in 1..Len(s) :
     i <= Run(s, 1, Digits) /\ i + 1 <= Len(s) /\ s[i + 1] = "'"}
First2(s) == CHOOSE i \in Cands2(s) : \A j \in Cands2(s) : i >= j

parse_height_to_inches(height_str) ==
  IF height_str = NoneStr \/ height_str = <<>> \/ Strip(height_str) = <<>>
  THEN None
  ELSE
    LET s == Strip(height_str) IN
    IF Cands1(s) # {}
    THEN LET c == First1(s)
             from == c[1] + c[2] + c[3] + 1
             feet == DigitsToInt(SubSeq(s, 1, c[1]))
             inches == DigitsToInt(
                         SubSeq(s, from, from + Run(s, from, Digits) - 1))
         IN Num((feet * 12 + inches) * 100)
    ELSE IF Cands2(s) # {}
    THEN Num(DigitsToInt(SubSeq(s, 1, First2(s))) * 12 * 100)
    ELSE None

\* ---------------------------------------------------- clean_numeric_value
\* float(s) for s over digits, ".", "-", whitespace and letters: the
\* decimal grammar [-](digits[.digits] | .digits) and [-]nan, surrounding
\* whitespace ignored; anything else is ValueError.  Fractions are exact
\* to two digits.
IsDecimal(t) ==
  LET i == Run(t, 1, Digits)
      dot == i + 1 <= Len(t) /\ t[i + 1] = "."
      f == IF dot THEN Run(t, i + 2, Digits) ELSE 0
  IN /\ i + f >= 1
     /\ f <= 2
     /\ Len(t) = i + (IF dot THEN 1 ELSE 0) + f
DecimalValue(t) ==
  LET i == Run(t, 1, Digits)
      f == Len(t) - i - 1
      frac == IF f <= 0 THEN <<>> ELSE SubSeq(t, i + 2, Len(t))
      padded == IF Len(frac) = 0 THEN <<"0", "0">>
                ELSE IF Len(frac) = 1 THEN frac \o <<"0">> ELSE frac
  IN DigitsToInt(SubSeq(t, 1, i)) * 100 + DigitsToInt(padded)
\* float(value); [ok |-> FALSE] is ValueError/TypeError.
PyFloat(value) ==
  IF value = NoneStr THEN [ok |-> FALSE, val |-> None]
  ELSE
    LET s == Strip(value)
        neg == s # <<>> /\ s[1] = "-"
        t == IF neg THEN Tail(s) ELSE s
    IN IF t = <<"n", "a", "n">> THEN [ok |-> TRUE, val |-> NaN]
       ELSE IF IsDecimal(t)
       THEN [ok |-> TRUE,
             val |-> Num(IF neg THEN 0 - DecimalValue(t) ELSE DecimalValue(t))]
       ELSE [ok |-> FALSE, val |-> None]

clean_numeric_value(value) ==
  IF value = NoneStr \/ Strip(value) = <<>> THEN None
  ELSE IF PyFloat(value).ok THEN PyFloat(value).val ELSE None

\* -------------------------------------------------------------- the input
\* Header rows (csv.DictReader.fieldnames) of the input files considered.
Headers ==
  { <<"height", "weight", "forty_yard_dash">>,
    <<"forty_yard_dash", "vertical_jump", "broad_jump">>,
    <<"weight", "shuttle_run", "three_cone">>,
    <<"weight", "grad_year", "position">>,
    <<"broad_jump", "state", "first_name">> }

\* Cell texts considered for each column.
Cells(col) ==
  CASE col = "height" -> {<<>>, <<"6", "'", " ", "1">>, <<"0", "'">>}
    [] col = "weight" -> {<<>>, <<"0">>, <<"9", "5">>}
    [] col = "forty_yard_dash" ->
         {<<>>, <<"0">>, <<"4", ".", "5">>, <<"4", ".", "7">>}
    [] col = "vertical_jump" -> {<<>>, <<"3", "0">>, <<"n", "a", "n">>}
    [] col = "broad_jump" -> {<<>>, <<"a", "b", "c">>, <<"1", "0", "0">>}
    [] col = "shuttle_run" -> {<<>>, <<"4", ".", "2">>, <<"n", "a", "n">>}
    [] col = "three_cone" -> {<<>>, <<" ", "7", " ">>}
    [] col = "grad_year" ->
         {<<>>, <<"0">>, <<"2", "0", "2", "4">>, <<"n", "a", "n">>}
    [] col = "position" -> {<<>>, <<"W", "R">>, <<" ", "Q", "B", " ">>}
    [] col = "state" -> {<<>>, <<"T", "X">>}
    [] col = "first_name" -> {<<"J", "o">>}

\* The non-blank lines of a file with this header: a line carries cells for
\* the first n columns, 1 <= n <= Len(fieldnames).
RECURSIVE Lines(_, _)
Lines(fieldnames, n) ==
  IF n = 0 THEN {<<>>}
  ELSE {Append(l, c) : l \in Lines(fieldnames, n - 1),
                       c \in Cells(fieldnames[n])}
RawRows(fieldnames) ==
  UNION {Lines(fieldnames, n) : n \in 1..Len(fieldnames)}

\* csv.DictReader.__next__: the row dict; columns past the end of a short
\* line get restval (None).
DictRow(fieldnames, line) ==
  [col \in {fieldnames[i] : i \in 1..Len(fieldnames)} |->
     LET i == CHOOSE j \in 1..Len(fieldnames) : fieldnames[j] = col
     IN IF i <= Len(line) THEN line[i] ELSE NoneStr]

\* dict.get(key, default)
Get(row, key, default) == IF key \in DOMAIN row THEN row[key] ELSE default

\* -------------------------------------------------------- the program state
VARIABLES
  pc,           \* where process_combine_data is
  error,        \* the exception that ended the run, "none" while there is none
  fieldnames,   \* reader.fieldnames, <<>> before the input is opened
  input_open,   \* the input file object f is open
  rows_read,    \* data rows the reader has yielded
  athletes,     \* the list athletes
  stats,        \* the dict stats
  metric_stats, \* the dict metric_stats, <<>> before it is computed
  output,       \* the dict output, <<>> before it is assembled
  stdev_args,   \* lengths of the lists statistics.stdev was called with
  out_opens,    \* times the output destination was opened
  out_dumps,    \* times json.dump completed on it
  out_file,     \* content of the output destination
  height_str,   \* argument of a direct call to parse_height_to_inches
  height_ret    \* its return value, "pending" until it returns

vars ==
  <<pc, error, fieldnames, input_open, rows_read, athletes, stats,
    metric_stats, output, stdev_args, out_opens, out_dumps, out_file,
    height_str, height_ret>>

\* ----------------------------------------------------- the per-row step
EmptyDict == [x \in {} |-> 0]
\* d[key] = d.get(key, 0) + 1
Incr(d, key) ==
  IF key \in DOMAIN d THEN [d EXCEPT ![key] = @ + 1] ELSE d @@ (key :> 1)

StrColumns == {"first_name", "last_name", "position", "state", "conditions"}
\* row.get(col, '').strip() raises AttributeError when the value is None.
StripRaises(row) == \E col \in StrColumns : Get(row, col, <<>>) = NoneStr

\* Variant: the id taken from the row number of the input.
NextIdFromRowNumber(n) == rows_read + 1

\* 'id': len(athletes) + 1
NextId(n) == n + 1

\* The dict athlete built for a row.
BuildAthlete(row, n) ==
  [id |-> NextId(n),
   firstName |-> Strip(Get(row, "first_name", <<>>)),
   lastName |-> Strip(Get(row, "last_name", <<>>)),
   position |-> Strip(Get(row, "position", <<>>)),
   state |-> Strip(Get(row, "state", <<>>)),
   gradYear |-> clean_numeric_value(Get(row, "grad_year", NoneStr)),
   height |-> parse_height_to_inches(Get(row, "height", <<>>)),
   weight |-> clean_numeric_value(Get(row, "weight", NoneStr)),
   dash40 |-> clean_numeric_value(Get(row, "forty_yard_dash", NoneStr)),
   verticalJump |-> clean_numeric_value(Get(row, "vertical_jump", NoneStr)),
   broadJump |-> clean_numeric_value(Get(row, "broad_jump", NoneStr)),
   proAgility |-> clean_numeric_value(Get(row, "shuttle_run", NoneStr)),
   lDrill |-> clean_numeric_value(Get(row, "three_cone", NoneStr)),
   conditions |-> Strip(Get(row, "conditions", <<>>))]

\* any([dash40, vertical_jump, broad_jump, height_inches, weight])
HasSomeData(a) ==
  \/ Truthy(a.dash40) \/ Truthy(a.verticalJump) \/ Truthy(a.broadJump)
  \/ Truthy(a.height) \/ Truthy(a.weight)

\* if dash40: / if vertical_jump: / if broad_jump:
CountsAsPresent(x) == Truthy(x)

\* if year: ... str(int(year)) is reached, and int(year) raises on NaN.
YearIsCounted(year) == Truthy(year)
IntRaises(year) == year.k = "nan"
\* str(int(year)): int() truncates toward zero.
YearKey(year) ==
  IntToStr(IF year.v < 0 THEN 0 - ((0 - year.v) \div 100) ELSE year.v \div 100)

\* Variant: the increment indented under `if dash40:`.
TotalAfterUnderDash40(st, a) ==
  IF Truthy(a.dash40) THEN st.total_athletes + 1 ELSE st.total_athletes

\* stats['total_athletes'] += 1
TotalAfter(st, a) == st.total_athletes + 1

\* The updates of stats for an accepted athlete, up to the grad-year table.
CountAthlete(st, a) ==
  [st EXCEPT
     !.total_athletes = TotalAfter(st, a),
     !.with_40_time = IF CountsAsPresent(a.dash40) THEN @ + 1 ELSE @,
     !.with_vertical = IF CountsAsPresent(a.verticalJump) THEN @ + 1 ELSE @,
     !.with_broad_jump = IF CountsAsPresent(a.broadJump) THEN @ + 1 ELSE @,
     !.positions = Incr(@, a.position),
     !.states = IF a.state # <<>> THEN Incr(@, a.state) ELSE @]
CountYear(st, a) ==
  [st EXCEPT !.grad_years = Incr(@, YearKey(a.gradYear))]

Abort(e) ==
  /\ pc' = "aborted"
  /\ error' = e
  /\ input_open' = FALSE

\* ------------------------------------------- calculate_metric_statistics
Metrics ==
  {"dash40", "verticalJump", "broadJump", "proAgility", "lDrill",
   "height", "weight"}

\* [a[metric] for a in athletes if a.get(metric) is not None]
Values(aths, metric) ==
  SelectSeq([i \in 1..Len(aths) |-> aths[i][metric]], IsNotNone)

HasNaN(values) == \E i \in 1..Len(values) : values[i].k = "nan"

RECURSIVE Sum(_)
Sum(values) ==
  IF values = <<>> THEN 0 ELSE values[1].v + Sum(Tail(values))
RECURSIVE SumSq(_)
SumSq(values) ==
  IF values = <<>> THEN 0
  ELSE values[1].v * values[1].v + SumSq(Tail(values))

\* a / n rounded to the nearest integer, ties to even (n > 0).
RoundDiv(a, n) ==
  LET q == a \div n
      r == a % n
  IN IF 2 * r < n THEN q
     ELSE IF 2 * r > n THEN q + 1
     ELSE IF q % 2 = 0 THEN q ELSE q + 1

\* The integer square root, by bisection on lo*lo <= n < hi*hi.
RECURSIVE Bisect(_, _, _)
Bisect(n, lo, hi) ==
  IF hi - lo <= 1 THEN lo
  ELSE LET mid == (lo + hi) \div 2
       IN IF mid * mid <= n THEN Bisect(n, mid, hi) ELSE Bisect(n, lo, mid)
Isqrt(n) == Bisect(n, 0, IF n < 46340 THEN n + 1 ELSE 46341)

\* x < y on floats: every comparison with NaN is false.
Less(x, y) == x.k = "float" /\ y.k = "float" /\ x.v < y.v

\* min(values) and max(values): the builtin's left-to-right scan.
RECURSIVE ScanMin(_, _)
ScanMin(best, rest) ==
  IF rest = <<>> THEN best
  ELSE ScanMin(IF Less(rest[1], best) THEN rest[1] ELSE best, Tail(rest))
RECURSIVE ScanMax(_, _)
ScanMax(best, rest) ==
  IF rest = <<>> THEN best
  ELSE ScanMax(IF Less(best, rest[1]) THEN rest[1] ELSE best, Tail(rest))

\* round(mean(values), 2)
Mean(values) ==
  IF HasNaN(values) THEN NaN ELSE Num(RoundDiv(Sum(values), Len(values)))

\* round(stdev(values), 2): the sample standard deviation (N - 1), which in
\* hundredths is sqrt(ss / d) with ss = N * sum(x^2) - sum(x)^2 and
\* d = N * (N - 1), rounded to the nearest integer.
Stdev(values) ==
  IF HasNaN(values) THEN NaN
  ELSE LET n == Len(values)
           ss == n * SumSq(values) - Sum(values) * Sum(values)
           d == n * (n - 1)
       IN Num((Isqrt((4 * ss) \div d) + 1) \div 2)

\* Variant: `if len(values) > 0:`.
HasEnoughWithOne(values) == Len(values) > 0

\* if len(values) > 1:
HasEnough(values) == Len(values) > 1

MetricEntry(values) ==
  IF HasEnough(values)
  THEN [mean |-> Mean(values),
        std |-> Stdev(values),
        min |-> ScanMin(values[1], Tail(values)),
        max |-> ScanMax(values[1], Tail(values)),
        count |-> Len(values)]
  ELSE [mean |-> None, std |-> None, min |-> None, max |-> None,
        count |-> Len(values)]

calculate_metric_statistics(aths) ==
  [metric \in Metrics |-> MetricEntry(Values(aths, metric))]

\* The lengths of the lists stdev() is called with.
StdevCalls(aths) ==
  {Len(Values(aths, metric)) :
     metric \in {m \in Metrics : HasEnough(Values(aths, m))}}

\* statistics.stdev on a list holding NaN: nan on some CPython versions,
\* AttributeError ('float' object has no attribute 'numerator') on others.
StdevMayRaise(aths) ==
  \E metric \in Metrics :
    HasEnough(Values(aths, metric)) /\ HasNaN(Values(aths, metric))

\* ------------------------------------------------- process_combine_data
Pending == [k |-> "pending", v |-> 0]

Init ==
  /\ pc = "start"
  /\ error = "none"
  /\ fieldnames = <<>>
  /\ input_open = FALSE
  /\ rows_read = 0
  /\ athletes = <<>>
  /\ stats = [total_athletes |-> 0, with_40_time |-> 0, with_vertical |-> 0,
              with_broad_jump |-> 0, positions |-> EmptyDict,
              states |-> EmptyDict, grad_years |-> EmptyDict]
  /\ metric_stats = <<>>
  /\ output = <<>>
  /\ stdev_args = {}
  /\ out_opens = 0
  /\ out_dumps = 0
  /\ out_file = "prior"
  /\ height_str = <<>>
  /\ height_ret = Pending

\* with open(csv_path, 'r', encoding='utf-8') as f: reader = csv.DictReader(f)
OpenInput ==
  /\ pc = "start"
  /\ \E h \in Headers : fieldnames' = h
  /\ input_open' = TRUE
  /\ pc' = "reading"
  /\ UNCHANGED <<error, rows_read, athletes, stats, metric_stats, output,
                 stdev_args, out_opens, out_dumps, out_file, height_str,
                 height_ret>>

\* open(csv_path) raises OSError.
OpenInputFails ==
  /\ pc = "start"
  /\ Abort("OSError@input")
  /\ UNCHANGED <<fieldnames, rows_read, athletes, stats, metric_stats,
                 output, stdev_args, out_opens, out_dumps, out_file,
                 height_str, height_ret>>

\* One iteration of `for row in reader:` on the data line `line`.
ProcessRow(line) ==
  LET row == DictRow(fieldnames, line)
      athlete == BuildAthlete(row, Len(athletes))
  IN
  /\ rows_read' = rows_read + 1
  /\ IF StripRaises(row)
     THEN /\ Abort("AttributeError@row")
          /\ UNCHANGED <<athletes, stats>>
     ELSE IF ~HasSomeData(athlete)
     THEN UNCHANGED <<pc, error, input_open, athletes, stats>>
     ELSE /\ athletes' = Append(athletes, athlete)
          /\ IF ~YearIsCounted(athlete.gradYear)
             THEN /\ stats' = CountAthlete(stats, athlete)
                  /\ UNCHANGED <<pc, error, input_open>>
             ELSE IF IntRaises(athlete.gradYear)
             THEN /\ stats' = CountAthlete(stats, athlete)
                  /\ Abort("ValueError@row")
             ELSE /\ stats' = CountYear(CountAthlete(stats, athlete), athlete)
                  /\ UNCHANGED <<pc, error, input_open>>

ReadRow ==
  /\ pc = "reading"
  /\ rows_read < MaxRows
  /\ \E line \in RawRows(fieldnames) : ProcessRow(line)
  /\ UNCHANGED <<fieldnames, metric_stats, output, stdev_args, out_opens,
                 out_dumps, out_file, height_str, height_ret>>

\* Reading the next line raises (OSError, UnicodeDecodeError, csv.Error).
ReadFails ==
  /\ pc = "reading"
  /\ Abort("OSError@input")
  /\ UNCHANGED <<fieldnames, rows_read, athletes, stats, metric_stats,
                 output, stdev_args, out_opens, out_dumps, out_file,
                 height_str, height_ret>>

\* Variant: the rest of the function nested inside the input's with block.
EndOfInputKeepsOpen ==
  /\ pc = "reading"
  /\ pc' = "statistics"
  /\ UNCHANGED <<error, fieldnames, input_open, rows_read, athletes, stats,
                 metric_stats, output, stdev_args, out_opens, out_dumps,
                 out_file, height_str, height_ret>>

\* The reader is exhausted: the loop and the with block end.
EndOfInput ==
  /\ pc = "reading"
  /\ input_open' = FALSE
  /\ pc' = "statistics"
  /\ UNCHANGED <<error, fieldnames, rows_read, athletes, stats, metric_stats,
                 output, stdev_args, out_opens, out_dumps, out_file,
                 height_str, height_ret>>

\* metric_stats = calculate_metric_statistics(athletes); output = {...}
\* stdev() raises StatisticsError on fewer than two values.
ComputeStatistics ==
  /\ pc = "statistics"
  /\ stdev_args' = StdevCalls(athletes)
  /\ IF \E n \in StdevCalls(athletes) : n < 2
     THEN /\ Abort("StatisticsError@stdev")
          /\ UNCHANGED <<metric_stats, output>>
     ELSE /\ metric_stats' = calculate_metric_statistics(athletes)
          /\ output' = [athletes |-> athletes,
                        summary |-> stats,
                        metricStatistics |-> metric_stats',
                        dataSource |-> "Kaggle",
                        totalRecords |-> Len(athletes)]
          /\ pc' = "open_output"
          /\ UNCHANGED <<error, input_open>>
  /\ UNCHANGED <<fieldnames, rows_read, athletes, stats, out_opens,
                 out_dumps, out_file, height_str, height_ret>>

\* stdev() raises on a list holding NaN.
StdevRaisesOnNaN ==
  /\ pc = "statistics"
  /\ StdevMayRaise(athletes)
  /\ stdev_args' = StdevCalls(athletes)
  /\ Abort("AttributeError@stdev")
  /\ UNCHANGED <<fieldnames, rows_read, athletes, stats, metric_stats,
                 output, out_opens, out_dumps, out_file, height_str,
                 height_ret>>

\* with open(output_json_path, 'w', encoding='utf-8') as f: truncates.
OpenOutput ==
  /\ pc = "open_output"
  /\ out_opens' = out_opens + 1
  /\ out_file' = "empty"
  /\ pc' = "dump"
  /\ UNCHANGED <<error, fieldnames, input_open, rows_read, athletes, stats,
                 metric_stats, output, stdev_args, out_dumps, height_str,
                 height_ret>>

OpenOutputFails ==
  /\ pc = "open_output"
  /\ Abort("OSError@output")
  /\ UNCHANGED <<fieldnames, rows_read, athletes, stats, metric_stats,
                 output, stdev_args, out_opens, out_dumps, out_file,
                 height_str, height_ret>>

\* json.dump(output, f, indent=2), then the prints and return output.
Dump ==
  /\ pc = "dump"
  /\ out_dumps' = out_dumps + 1
  /\ out_file' = "document"
  /\ pc' = "done"
  /\ UNCHANGED <<error, fieldnames, input_open, rows_read, athletes, stats,
                 metric_stats, output, stdev_args, out_opens, height_str,
                 height_ret>>

\* A write fails part-way: the destination is left truncated.
DumpFails ==
  /\ pc = "dump"
  /\ out_file' = "partial"
  /\ Abort("OSError@output")
  /\ UNCHANGED <<fieldnames, rows_read, athletes, stats, metric_stats,
                 output, stdev_args, out_opens, out_dumps, height_str,
                 height_ret>>

Next ==
  \/ OpenInput
  \/ OpenInputFails
  \/ ReadRow
  \/ ReadFails
  \/ EndOfInput
  \/ ComputeStatistics
  \/ StdevRaisesOnNaN
  \/ OpenOutput
  \/ OpenOutputFails
  \/ Dump
  \/ DumpFails

Spec == Init /\ [][Next]_vars

\* ------------------------------- a direct call of parse_height_to_inches
HeightChars == {"0", "1", "'", " ", "x"}
HeightStrings == UNION {[1..n -> HeightChars] : n \in 0..MaxLen}

InitHeight ==
  /\ pc = "call"
  /\ error = "none"
  /\ fieldnames = <<>>
  /\ input_open = FALSE
  /\ rows_read = 0
  /\ athletes = <<>>
  /\ stats = [total_athletes |-> 0, with_40_time |-> 0, with_vertical |-> 0,
              with_broad_jump |-> 0, positions |-> EmptyDict,
              states |-> EmptyDict, grad_years |-> EmptyDict]
  /\ metric_stats = <<>>
  /\ output = <<>>
  /\ stdev_args = {}
  /\ out_opens = 0
  /\ out_dumps = 0
  /\ out_file = "prior"
  /\ height_str \in HeightStrings
  /\ height_ret = Pending

CallParseHeight ==
  /\ pc = "call"
  /\ height_ret' = parse_height_to_inches(height_str)
  /\ pc' = "returned"
  /\ UNCHANGED <<error, fieldnames, input_open, rows_read, athletes, stats,
                 metric_stats, output, stdev_args, out_opens, out_dumps,
                 out_file, height_str>>

NextHeight == CallParseHeight

SpecHeight == InitHeight /\ [][NextHeight]_vars

\* ------------------------------------------------------------ properties
NonNull(x) == x.k # "None"
GateNonNull(a) ==
  \/ NonNull(a.dash40) \/ NonNull(a.verticalJump) \/ NonNull(a.broadJump)
  \/ NonNull(a.height) \/ NonNull(a.weight)

\* metric_stats and output exist.
Assembled == output # <<>>

\* C1: every row the per-row step completes on is appended to athletes if
\* and only if at least one of its dash40, verticalJump, broadJump, height,
\* weight is non-null after parsing (zero counts as non-null).
C1_RetainedIffSomeNonNull ==
  [][\A line \in RawRows(fieldnames) :
       (pc = "reading" /\ rows_read < MaxRows /\ ProcessRow(line)
          /\ ~StripRaises(DictRow(fieldnames, line)))
       => (Len(athletes') = Len(athletes) + 1
             <=> GateNonNull(BuildAthlete(DictRow(fieldnames, line),
                                          Len(athletes))))]_vars

\* The strings of the claimed shapes: F' I (optional whitespace) and F'.
IsDigitRun(s) == s # <<>> /\ \A i \in 1..Len(s) : s[i] \in Digits
IsSpaceRun(s) == \A i \in 1..Len(s) : s[i] \in Whitespace
FeetInchesSplits(s) ==
  {c \in (1..Len(s)) \X (1..Len(s)) :
     /\ c[1] < c[2]
     /\ IsDigitRun(SubSeq(s, 1, c[1]))
     /\ s[c[1] + 1] = "'"
     /\ IsSpaceRun(SubSeq(s, c[1] + 2, c[2] - 1))
     /\ c[2] > c[1] + 1
     /\ IsDigitRun(SubSeq(s, c[2], Len(s)))}
IsFeetOnly(s) ==
  Len(s) >= 2 /\ s[Len(s)] = "'" /\ IsDigitRun(SubSeq(s, 1, Len(s) - 1))
ClaimedHeight(s) ==
  IF FeetInchesSplits(s) # {}
  THEN LET c == CHOOSE c \in FeetInchesSplits(s) : TRUE
       IN Num((DigitsToInt(SubSeq(s, 1, c[1])) * 12
               + DigitsToInt(SubSeq(s, c[2], Len(s)))) * 100)
  ELSE IF IsFeetOnly(s)
  THEN Num(DigitsToInt(SubSeq(s, 1, Len(s) - 1)) * 12 * 100)
  ELSE None

\* C2: parse_height_to_inches returns F*12+I on F' I, F*12 on F' (any number
\* of feet digits) and null on every other string; the shapes are read on
\* the string with surrounding whitespace removed.
C2_HeightAsClaimed ==
  pc = "returned" => height_ret = ClaimedHeight(Strip(height_str))

\* C3: the k-th element of athletes has id k, after any prefix of the rows.
C3_IdsDense == \A k \in 1..Len(athletes) : athletes[k].id = k
C3_Witness ==
  /\ rows_read = MaxRows
  /\ Len(athletes) >= 1
  /\ Len(athletes) < rows_read
  /\ error = "none"

\* C4: metricStatistics[m].count is the number of accepted athletes whose m
\* is non-null, for every metric m.
C4_CountIsNonNull ==
  Assembled =>
    \A m \in Metrics :
      metric_stats[m].count =
        Cardinality({i \in 1..Len(athletes) : NonNull(athletes[i][m])})
C4_Witness ==
  /\ Assembled
  /\ metric_stats["weight"].count = 2
  /\ metric_stats["height"].count = 1
  /\ \E i \in 1..Len(athletes) : athletes[i].weight = Num(0)

\* C5: with_40_time, with_vertical and with_broad_jump are the numbers of
\* accepted athletes whose dash40, verticalJump, broadJump is non-null.
C5_PresenceCounts ==
  /\ stats.with_40_time =
       Cardinality({i \in 1..Len(athletes) : NonNull(athletes[i].dash40)})
  /\ stats.with_vertical =
       Cardinality({i \in 1..Len(athletes) :
                      NonNull(athletes[i].verticalJump)})
  /\ stats.with_broad_jump =
       Cardinality({i \in 1..Len(athletes) : NonNull(athletes[i].broadJump)})

\* C6: no row content makes the run end with an error in the per-row step.
C6_RowsNeverAbort == error \notin {"AttributeError@row", "ValueError@row"}

\* C7: mean, std, min and max are all null when fewer than 2 accepted
\* athletes have the metric and all non-null when 2 or more do; stdev is
\* never called on fewer than 2 values.
C7_NullBelowTwo ==
  /\ \A n \in stdev_args : n >= 2
  /\ Assembled =>
       \A m \in Metrics :
         LET e == metric_stats[m]
             n == Cardinality({i \in 1..Len(athletes) :
                                 NonNull(athletes[i][m])})
         IN /\ n < 2 => (/\ e.mean = None /\ e.std = None
                         /\ e.min = None /\ e.max = None)
            /\ n >= 2 => (/\ NonNull(e.mean) /\ NonNull(e.std)
                          /\ NonNull(e.min) /\ NonNull(e.max))
C7_Witness ==
  /\ Assembled
  /\ metric_stats["dash40"].count = 2
  /\ metric_stats["dash40"].std = Num(14)
  /\ metric_stats["weight"].count = 1
  /\ metric_stats["weight"].mean = None
  /\ stdev_args = {2}

\* C8: summary.total_athletes is the length of athletes after any prefix of
\* the rows, and totalRecords is the length of the output's athletes.
C8_TotalsAreLength ==
  /\ stats.total_athletes = Len(athletes)
  /\ Assembled =>
       /\ output.totalRecords = Len(output.athletes)
       /\ output.summary.total_athletes = Len(output.athletes)
C8_Witness ==
  /\ pc = "done"
  /\ rows_read = MaxRows
  /\ Len(output.athletes) >= 1
  /\ Len(output.athletes) < rows_read
  /\ \E i \in 1..Len(athletes) : ~Truthy(athletes[i].dash40)

\* C9: the tables count accepted records only: positions[p] is the number
\* of athletes with position p (the empty position included), states[s] the
\* number with the non-empty state s, grad_years[str(int(y))] the number
\* whose gradYear is a non-null number with that integer string.
TableIs(table, keys, Has(_, _)) ==
  /\ DOMAIN table = keys
  /\ \A key \in keys :
       table[key] =
         Cardinality({i \in 1..Len(athletes) : Has(athletes[i], key)})
HasPosition(a, key) == a.position = key
HasState(a, key) == a.state = key
HasYear(a, key) == a.gradYear.k = "float" /\ YearKey(a.gradYear) = key
C9_TablesAsClaimed ==
  /\ TableIs(stats.positions,
             {athletes[i].position : i \in 1..Len(athletes)}, HasPosition)
  /\ TableIs(stats.states,
             {athletes[i].state : i \in 1..Len(athletes)} \ {<<>>}, HasState)
  /\ TableIs(stats.grad_years,
             {YearKey(athletes[i].gradYear) :
                i \in {j \in 1..Len(athletes) :
                         athletes[j].gradYear.k = "float"}},
             HasYear)

\* C10: the output destination is opened only after the input is consumed
\* and released and the result assembled, is opened and written at most
\* once, and is untouched when opening or reading the input fails.
C10_LinearPipeline ==
  /\ out_opens <= 1
  /\ out_dumps <= out_opens
  /\ (out_opens > 0 \/ out_file # "prior") =>
       (/\ ~input_open
        /\ Assembled
        /\ output.athletes = athletes
        /\ output.summary = stats)
  /\ error = "OSError@input" => (out_opens = 0 /\ out_file = "prior")
C10_Witness ==
  /\ pc = "done"
  /\ out_opens = 1
  /\ out_dumps = 1
  /\ out_file = "document"
  /\ rows_read = MaxRows
  /\ Len(athletes) >= 1

====
